---- MODULE Spec2Model ----
(***************************************************************************)
(* A model of the 6GPT data tooling:                                       *)
(*   - nanochat/tokenizer_ipv6.py  (IPv6SegmentTokenizer: encode, decode,  *)
(*     render_conversation),                                               *)
(*   - dev/prepare_ipv6_parquet.py (process_low_memory: random bucketing,  *)
(*     per-bucket dedup, sharding),                                        *)
(*   - nanochat/scanner.py         (IPv6Scanner.verify_batch).             *)
(* Text is modelled as a sequence of one-character strings, so parsing and *)
(* formatting are computed character by character as the code (and the     *)
(* ipaddress module it calls) computes them.  A 128-bit address value is   *)
(* the tuple of its eight 16-bit hextets.                                  *)
(***************************************************************************)
EXTENDS Integers, Sequences, FiniteSets, TLC

(***************************************************************************)
(* Text helpers (str methods used by the code)                             *)
(***************************************************************************)

\* The absent value: Python's None, and a parse that raised ValueError.
None == <<>>

LowerDigits == <<"0","1","2","3","4","5","6","7","8","9","a","b","c","d","e","f">>
UpperDigits == <<"0","1","2","3","4","5","6","7","8","9","A","B","C","D","E","F">>

\* string.hexdigits: the characters _parse_hextet admits.
IsHexDigit(c) == \E d \in 1..16 : LowerDigits[d] = c \/ UpperDigits[d] = c

\* The value of one hex digit, as int(c, 16) reads it.
HexVal(c) == (CHOOSE d \in 1..16 : LowerDigits[d] = c \/ UpperDigits[d] = c) - 1

Whitespace == {" ", "\t", "\n", "\r"}

RECURSIVE LStrip(_)
LStrip(s) ==
    IF s # <<>> /\ Head(s) \in Whitespace THEN LStrip(Tail(s)) ELSE s

RECURSIVE RStrip(_)
RStrip(s) ==
    IF s # <<>> /\ s[Len(s)] \in Whitespace
    THEN RStrip(SubSeq(s, 1, Len(s) - 1))
    ELSE s

\* str.strip()
Strip(s) == RStrip(LStrip(s))

RECURSIVE SplitAcc(_, _, _)
SplitAcc(s, cur, acc) ==
    IF s = <<>> THEN Append(acc, cur)
    ELSE IF Head(s) = ":" THEN SplitAcc(Tail(s), <<>>, Append(acc, cur))
    ELSE SplitAcc(Tail(s), Append(cur, Head(s)), acc)

\* str.split(':')
SplitColon(s) == SplitAcc(s, <<>>, <<>>)

RECURSIVE JoinColon(_)
\* ':'.join(parts)
JoinColon(parts) ==
    IF parts = <<>> THEN <<>>
    ELSE IF Len(parts) = 1 THEN parts[1]
    ELSE parts[1] \o <<":">> \o JoinColon(Tail(parts))

RECURSIVE IntBase16(_)
\* int(part, 16) on a string of hex digits
IntBase16(part) ==
    IF part = <<>> THEN 0
    ELSE 16 * IntBase16(SubSeq(part, 1, Len(part) - 1)) + HexVal(part[Len(part)])

\* f"{n:04x}": four lowercase hex digits, zero padded
Format04x(n) ==
    << LowerDigits[((n \div 4096) % 16) + 1], LowerDigits[((n \div 256) % 16) + 1],
       LowerDigits[((n \div 16) % 16) + 1], LowerDigits[(n % 16) + 1] >>

RECURSIVE DropLeadingZeros(_)
DropLeadingZeros(s) ==
    IF Len(s) > 1 /\ Head(s) = "0" THEN DropLeadingZeros(Tail(s)) ELSE s

\* '%x' % n: lowercase hex digits without padding
FormatX(n) == DropLeadingZeros(Format04x(n))

(***************************************************************************)
(* ipaddress.IPv6Address as the code uses it: the constructor (parse),     *)
(* .exploded and str()                                                     *)
(***************************************************************************)

HEXTET_COUNT == 8

\* _parse_hextet: hex digits only, at most 4 of them; None when it raises.
ParseHextet(p) ==
    IF p = <<>> \/ Len(p) > 4 \/ \E i \in 1..Len(p) : ~IsHexDigit(p[i])
    THEN None
    ELSE <<IntBase16(p)>>

\* The indices 2..n-1 of empty parts: where a '::' was written.
SkipIndices(parts) == {i \in 2..(Len(parts) - 1) : parts[i] = <<>>}

\* _ip_int_from_string: the address value as its 8 hextets, None when the
\* text is rejected.  '/' (a netmask) is rejected by the constructor.
IPv6Parse(s) ==
    LET parts == SplitColon(s)
        n     == Len(parts)
        skips == SkipIndices(parts)
    IN  IF s = <<>> \/ (\E i \in 1..Len(s) : s[i] = "/") THEN None
        ELSE IF n < 3 \/ n > HEXTET_COUNT + 1 THEN None
        ELSE IF Cardinality(skips) > 1 THEN None
        ELSE IF skips # {}
        THEN LET k    == CHOOSE i \in skips : TRUE
                 hi0  == k - 1
                 lo0  == n - k
                 hi   == IF parts[1] = <<>> THEN hi0 - 1 ELSE hi0
                 lo   == IF parts[n] = <<>> THEN lo0 - 1 ELSE lo0
                 skipped == HEXTET_COUNT - (hi + lo)
                 hs   == [i \in 1..hi |-> ParseHextet(parts[i])]
                 ls   == [i \in 1..lo |-> ParseHextet(parts[n - lo + i])]
             IN  IF (parts[1] = <<>> /\ hi # 0) \/ (parts[n] = <<>> /\ lo # 0)
                 THEN None
                 ELSE IF skipped < 1 THEN None
                 ELSE IF (\E i \in 1..hi : hs[i] = None) \/ (\E i \in 1..lo : ls[i] = None)
                 THEN None
                 ELSE [i \in 1..HEXTET_COUNT |->
                         IF i <= hi THEN hs[i][1]
                         ELSE IF i <= hi + skipped THEN 0
                         ELSE ls[i - hi - skipped][1]]
        ELSE IF n # HEXTET_COUNT \/ parts[1] = <<>> \/ parts[n] = <<>> THEN None
        ELSE LET hs == [i \in 1..n |-> ParseHextet(parts[i])]
             IN  IF \E i \in 1..n : hs[i] = None THEN None
                 ELSE [i \in 1..n |-> hs[i][1]]

\* IPv6Address.exploded: eight 4-digit groups joined by ':'
Exploded(v) == JoinColon([i \in 1..HEXTET_COUNT |-> Format04x(v[i])])

\* The length of the run of zero hextets of v that starts at index i.
RECURSIVE ZeroRunLen(_, _)
ZeroRunLen(v, i) ==
    IF i > Len(v) \/ v[i] # 0 THEN 0 ELSE 1 + ZeroRunLen(v, i + 1)

\* _compress_hextets picks the first of the longest runs of zero hextets.
BestRunLen(v) ==
    LET lens == {ZeroRunLen(v, i) : i \in 1..Len(v)}
    IN  CHOOSE m \in lens : \A x \in lens : x <= m

BestRunStart(v) ==
    CHOOSE i \in 1..Len(v) :
        /\ ZeroRunLen(v, i) = BestRunLen(v)
        /\ \A j \in 1..(i - 1) : ZeroRunLen(v, j) < BestRunLen(v)

\* str(IPv6Address): '%x' hextets, the best run of two or more zero hextets
\* replaced by an empty part (with an extra empty part at either end).
Compressed(v) ==
    LET hx    == [i \in 1..HEXTET_COUNT |-> FormatX(v[i])]
        len   == BestRunLen(v)
        start == BestRunStart(v)
        stop  == start + len - 1
        head  == SubSeq(hx, 1, start - 1)
        tail  == SubSeq(hx, stop + 1, HEXTET_COUNT)
    IN  IF len > 1
        THEN JoinColon((IF start = 1 THEN <<<<>>>> ELSE <<>>) \o head \o <<<<>>>>
                       \o tail \o (IF stop = HEXTET_COUNT THEN <<<<>>>> ELSE <<>>))
        ELSE JoinColon(hx)

(***************************************************************************)
(* nanochat/tokenizer_ipv6.py: IPv6SegmentTokenizer                        *)
(***************************************************************************)

TOKEN_OFFSET == 65536

SPECIAL_TOKENS ==
    << "<|bos|>", "<|eos|>", "<|pad|>", "<|user_start|>", "<|user_end|>",
       "<|assistant_start|>", "<|assistant_end|>" >>

\* __init__: special_tokens_map[token] = TOKEN_OFFSET + i
SpecialTokenId(name) ==
    TOKEN_OFFSET + (CHOOSE i \in 1..Len(SPECIAL_TOKENS) : SPECIAL_TOKENS[i] = name) - 1

bos_token_id == SpecialTokenId("<|bos|>")
eos_token_id == SpecialTokenId("<|eos|>")

\* idx in self.id_to_special_token
IsSpecialId(idx) == idx \in TOKEN_OFFSET..(TOKEN_OFFSET + Len(SPECIAL_TOKENS) - 1)

\* encode_special: special_tokens_map.get(text, eos_token_id)
encode_special(name) ==
    IF \E i \in 1..Len(SPECIAL_TOKENS) : SPECIAL_TOKENS[i] = name
    THEN SpecialTokenId(name)
    ELSE eos_token_id

\* A prepend/append argument: None, <<"int", id>> or <<"str", name>>.
ControlIds(arg) ==
    IF arg = None THEN <<>>
    ELSE IF arg[1] = "int" THEN <<arg[2]>>
    ELSE <<encode_special(arg[2])>>

\* [int(part, 16) for part in addr.exploded.split(':')]
ExplodedTokenIds(v) ==
    LET parts == SplitColon(Exploded(v))
    IN  [i \in 1..Len(parts) |-> IntBase16(parts[i])]

\* The body of _encode_one: the 8 token ids of the address, nothing when the
\* text is blank or IPv6Address raises ValueError.
EncodeBody(text) ==
    LET t == Strip(text)
        v == IPv6Parse(t)
    IN  IF t = <<>> \/ v = None THEN <<>> ELSE ExplodedTokenIds(v)

\* _encode_one(text, prepend, append); encode(str) is the same call
EncodeOne(text, prepend, append) ==
    ControlIds(prepend) \o EncodeBody(text) \o ControlIds(append)

RECURSIVE DecodePartsSkipsZero(_)
\* decode's loop with the range test written 0 < idx: the all-zero hextet
\* is dropped.
DecodePartsSkipsZero(ids) ==
    IF ids = <<>> THEN <<>>
    ELSE LET idx == Head(ids)
         IN  IF IsSpecialId(idx) THEN DecodePartsSkipsZero(Tail(ids))
             ELSE IF 0 < idx /\ idx <= 65535
             THEN <<Format04x(idx)>> \o DecodePartsSkipsZero(Tail(ids))
             ELSE DecodePartsSkipsZero(Tail(ids))

RECURSIVE DecodeParts(_)
\* decode's loop: special ids are skipped, ids in 0..65535 are rendered as
\* 04x, any other id is ignored
DecodeParts(ids) ==
    IF ids = <<>> THEN <<>>
    ELSE LET idx == Head(ids)
         IN  IF IsSpecialId(idx) THEN DecodeParts(Tail(ids))
             ELSE IF 0 <= idx /\ idx <= 65535
             THEN <<Format04x(idx)>> \o DecodeParts(Tail(ids))
             ELSE DecodeParts(Tail(ids))

\* decode(ids)
Decode(ids) ==
    LET parts   == DecodeParts(ids)
        full_ip == JoinColon(parts)
        v       == IPv6Parse(full_ip)
    IN  IF parts = <<>> THEN <<>>
        ELSE IF v = None THEN full_ip
        ELSE Compressed(v)

Min(a, b) == IF a <= b THEN a ELSE b
Max(a, b) == IF a >= b THEN a ELSE b

\* Python's s[:m]
SliceTo(s, m) ==
    IF m >= 0 THEN SubSeq(s, 1, Min(m, Len(s)))
    ELSE SubSeq(s, 1, Max(0, Len(s) + m))

RECURSIVE RenderMessages(_, _, _)
\* The loop of render_conversation over conversation["messages"]; the result
\* is <<ids, mask>>.
RenderMessages(messages, ids, mask) ==
    IF messages = <<>> THEN <<ids, mask>>
    ELSE LET message    == Head(messages)
             encoded_ip == EncodeOne(message.content, None, None)
             n          == Len(encoded_ip)
         IN  IF message.role = "user"
             THEN RenderMessages(Tail(messages), ids \o encoded_ip,
                                 mask \o [i \in 1..n |-> 0])
             ELSE IF message.role = "assistant"
             THEN RenderMessages(Tail(messages),
                                 ids \o encoded_ip \o <<eos_token_id>>,
                                 mask \o [i \in 1..n |-> 1] \o <<1>>)
             ELSE RenderMessages(Tail(messages), ids, mask)

\* render_conversation truncating ids but not mask.
RenderConversationMaskUncut(messages, max_tokens) ==
    LET r == RenderMessages(messages, <<bos_token_id>>, <<0>>)
    IN  <<SliceTo(r[1], max_tokens), r[2]>>

\* render_conversation(conversation, max_tokens)
RenderConversation(messages, max_tokens) ==
    LET r == RenderMessages(messages, <<bos_token_id>>, <<0>>)
    IN  <<SliceTo(r[1], max_tokens), SliceTo(r[2], max_tokens)>>

(***************************************************************************)
(* State                                                                   *)
(***************************************************************************)

VARIABLES
    \* tokenizer, encode then decode of one text
    cpc, ctext, cval, cprepend, cappend, cids, cout,
    \* tokenizer, render_conversation
    rpc, messages, max_tokens, rids, rmask,
    \* scanner, one call of verify_batch
    spc, use_mock, ip_list, future, yielded, ip_status, result,
    \* data preparation, one run of process_low_memory
    pc, input_exists, fin, temp_dir, bucket_txt, bucket_files, exc, closing,
    bucket_i, unique_ips, bucket_ip_list, current_idx,
    shard_index, total_processed_ips, shards, reported

codecVars   == <<cpc, ctext, cval, cprepend, cappend, cids, cout>>
renderVars  == <<rpc, messages, max_tokens, rids, rmask>>
scannerVars == <<spc, use_mock, ip_list, future, yielded, ip_status, result>>
prepVars    == <<pc, input_exists, fin, temp_dir, bucket_txt, bucket_files, exc,
                 closing, bucket_i, unique_ips, bucket_ip_list, current_idx,
                 shard_index, total_processed_ips, shards, reported>>
vars        == <<codecVars, renderVars, scannerVars, prepVars>>

CodecIdle   == /\ cpc = "idle" /\ ctext = <<>> /\ cval = None /\ cprepend = None
               /\ cappend = None /\ cids = <<>> /\ cout = <<>>
RenderIdle  == /\ rpc = "idle" /\ messages = <<>> /\ max_tokens = 0
               /\ rids = <<>> /\ rmask = <<>>
ScannerIdle == /\ spc = "idle" /\ use_mock = FALSE /\ ip_list = <<>> /\ future = <<>>
               /\ yielded = {} /\ ip_status = <<>> /\ result = <<>>
PrepIdle    == /\ pc = "idle" /\ input_exists = FALSE /\ fin = <<>> /\ temp_dir = FALSE
               /\ bucket_txt = <<>> /\ bucket_files = <<>> /\ exc = "none"
               /\ closing = 0 /\ bucket_i = 0 /\ unique_ips = {}
               /\ bucket_ip_list = <<>> /\ current_idx = 0 /\ shard_index = 0
               /\ total_processed_ips = 0 /\ shards = <<>> /\ reported = None

(***************************************************************************)
(* Inputs of the tokenizer: every way of writing an address value          *)
(***************************************************************************)

\* Hextet values the enumerated addresses are built from: every pattern of
\* zero and non-zero hextets, with the smallest and the largest non-zero value.
SegVals == {1, 65535}

\* 2001:db8::1, an address with no zero hextet, and one with hex letters.
ExtraValues ==
    { <<8193, 3512, 0, 0, 0, 0, 0, 1>>,
      <<8193, 3512, 1, 2, 3, 4, 5, 6>>,
      <<43981, 0, 0, 16, 0, 0, 0, 2748>> }

AddressValues ==
    UNION {[1..HEXTET_COUNT -> {0, x}] : x \in SegVals} \cup ExtraValues

\* The runs <<start, length>> of zero hextets of v a writer may replace by '::'.
ZeroRuns(v) ==
    {r \in (1..HEXTET_COUNT) \X (1..HEXTET_COUNT) :
        /\ r[1] + r[2] - 1 <= HEXTET_COUNT
        /\ \A i \in r[1]..(r[1] + r[2] - 1) : v[i] = 0}

\* One hextet as a writer may put it: padded to 4 digits or not.
WriteGroup(n, pad) == IF pad THEN Format04x(n) ELSE FormatX(n)

\* v written with the run r replaced by '::' (r = None: written in full).
WriteAddress(v, r, pad) ==
    LET g == [i \in 1..HEXTET_COUNT |-> WriteGroup(v[i], pad)]
    IN  IF r = None THEN JoinColon(g)
        ELSE JoinColon(SubSeq(g, 1, r[1] - 1)) \o <<":", ":">>
             \o JoinColon(SubSeq(g, r[1] + r[2], HEXTET_COUNT))

UpperChar(c) ==
    IF \E d \in 1..16 : LowerDigits[d] = c
    THEN UpperDigits[CHOOSE d \in 1..16 : LowerDigits[d] = c]
    ELSE c

UpperText(s) == [i \in 1..Len(s) |-> UpperChar(s[i])]

\* Texts that are not addresses: blank, too few parts, a non-hex character,
\* two '::', a 5-digit group, 9 groups, a lone leading colon, a netmask.
InvalidTexts ==
    { <<>>, <<" ">>, <<"1", ":", "2">>, <<":", ":", "g">>,
      <<"1", ":", ":", "2", ":", ":", "3">>, <<":", ":", ":">>,
      <<":", ":", "0", "0", "0", "0", "1">>,
      <<"0",":","0",":","0",":","0",":","0",":","0",":","0",":","0",":","0">>,
      <<":","1",":","2",":","3",":","4",":","5",":","6",":","7">>,
      <<":", ":", "1", "/", "6", "4">>, <<"h", "e", "l", "l", "o">> }

ControlArgs == { None, <<"str", "<|bos|>">>, <<"str", "<|eos|>">>,
                 <<"str", "<|nope|>">>, <<"int", 65538>> }

(***************************************************************************)
(* Tokenizer: encode one text, then decode the ids                         *)
(***************************************************************************)

InitCodec ==
    /\ cpc = "start"
    /\ \/ \E v \in AddressValues, pad \in BOOLEAN :
            \E r \in ZeroRuns(v) \cup {None} :
                /\ cval = v
                /\ ctext = WriteAddress(v, r, pad)
                /\ cprepend = None /\ cappend = None
       \/ \E v \in ExtraValues, pre \in ControlArgs, app \in ControlArgs :
            /\ cval = v
            /\ ctext \in { <<" ">> \o Compressed(v) \o <<"\n">>,
                           UpperText(Exploded(v)) }
            /\ cprepend = pre /\ cappend = app
       \/ \E pre \in ControlArgs, app \in ControlArgs :
            /\ cval = None
            /\ ctext \in InvalidTexts
            /\ cprepend = pre /\ cappend = app
    /\ cids = <<>> /\ cout = <<>>
    /\ RenderIdle /\ ScannerIdle /\ PrepIdle

\* ids = tokenizer.encode(text, prepend, append)
Encode ==
    /\ cpc = "start"
    /\ cids' = EncodeOne(ctext, cprepend, cappend)
    /\ cpc' = "encoded"
    /\ UNCHANGED <<ctext, cval, cprepend, cappend, cout, renderVars, scannerVars, prepVars>>

\* out = tokenizer.decode(ids)
DecodeIds ==
    /\ cpc = "encoded"
    /\ cout' = Decode(cids)
    /\ cpc' = "decoded"
    /\ UNCHANGED <<ctext, cval, cprepend, cappend, cids, renderVars, scannerVars, prepVars>>

NextCodec == Encode \/ DecodeIds

SpecCodec == InitCodec /\ [][NextCodec]_vars

(***************************************************************************)
(* Tokenizer: render_conversation                                          *)
(***************************************************************************)

MaxMessages == 2
MaxTokens == 12
DEFAULT_MAX_TOKENS == 2048

Roles == {"user", "assistant", "system"}

\* Message contents: "::1", "2001:db8::1" and a text that is no address.
Contents ==
    { <<":", ":", "1">>,
      <<"2", "0", "0", "1", ":", "d", "b", "8", ":", ":", "1">>,
      <<"h", "e", "l", "l", "o">> }

Message == [role : Roles, content : Contents]

InitRender ==
    /\ rpc = "start"
    /\ \E n \in 0..MaxMessages : messages \in [1..n -> Message]
    /\ max_tokens \in (0..MaxTokens) \cup {DEFAULT_MAX_TOKENS}
    /\ rids = <<>> /\ rmask = <<>>
    /\ CodecIdle /\ ScannerIdle /\ PrepIdle

\* ids, mask = tokenizer.render_conversation(conversation, max_tokens)
Render ==
    /\ rpc = "start"
    /\ LET r == RenderConversation(messages, max_tokens)
       IN  rids' = r[1] /\ rmask' = r[2]
    /\ rpc' = "rendered"
    /\ UNCHANGED <<messages, max_tokens, codecVars, scannerVars, prepVars>>

NextRender == Render

SpecRender == InitRender /\ [][NextRender]_vars

(***************************************************************************)
(* Properties of the tokenizer                                             *)
(***************************************************************************)

RECURSIVE RefHex(_)
\* The hex numeral of n without leading zeros, by repeated division.
RefHex(n) ==
    IF n < 16 THEN <<LowerDigits[n + 1]>>
    ELSE RefHex(n \div 16) \o <<LowerDigits[(n % 16) + 1]>>

RECURSIVE RefJoin(_, _, _)
\* The hextets a..b of v as numerals separated by colons.
RefJoin(v, a, b) ==
    IF a > b THEN <<>>
    ELSE IF a = b THEN RefHex(v[a])
    ELSE RefHex(v[a]) \o <<":">> \o RefJoin(v, a + 1, b)

\* s..s+l-1 is a maximal run of zero hextets of v.
IsMaxZeroRun(v, s, l) ==
    /\ s + l - 1 <= HEXTET_COUNT
    /\ \A i \in s..(s + l - 1) : v[i] = 0
    /\ (s > 1 => v[s - 1] # 0)
    /\ (s + l <= HEXTET_COUNT => v[s + l] # 0)

\* t is the canonical compressed text of v (RFC 5952): lowercase numerals
\* without leading zeros, and '::' in place of the leftmost of the longest
\* runs of two or more zero hextets, when there is one.
IsCanonicalTextOf(t, v) ==
    LET runs == {r \in (1..HEXTET_COUNT) \X (2..HEXTET_COUNT) : IsMaxZeroRun(v, r[1], r[2])}
    IN  IF runs = {} THEN t = RefJoin(v, 1, HEXTET_COUNT)
        ELSE \E r \in runs :
                /\ \A q \in runs : q[2] < r[2] \/ (q[2] = r[2] /\ q[1] >= r[1])
                /\ t = RefJoin(v, 1, r[1] - 1) \o <<":", ":">>
                       \o RefJoin(v, r[1] + r[2], HEXTET_COUNT)

\* C3: for every valid address text (any placement of '::', padded or not),
\* encode gives exactly the 8 hextet values of the address in order, each in
\* 0..65535 (between the requested control tokens), so two texts of one value
\* give the same tokens; and decode of those tokens is the canonical
\* compressed text of the same value.
C3_RoundTrip ==
    (cval # None /\ cpc \in {"encoded", "decoded"}) =>
        /\ cids = ControlIds(cprepend) \o cval \o ControlIds(cappend)
        /\ \A i \in 1..HEXTET_COUNT : cval[i] \in 0..65535
        /\ (cpc = "decoded" => IsCanonicalTextOf(cout, cval))

\* The exploded text of 0:0:1:0:0:0:1:0 has been encoded and decoded to
\* "0:0:1::1:0".
C3_Witness ==
    /\ cpc = "decoded"
    /\ cval = <<0, 0, 1, 0, 0, 0, 1, 0>>
    /\ cprepend = None /\ cappend = None
    /\ ctext = Exploded(cval)
    /\ cids = cval
    /\ cout = <<"0", ":", "0", ":", "1", ":", ":", "1", ":", "0">>

\* The tokens message k contributes: its encoded body, then the end token
\* after an assistant message; nothing for a role that is neither.
BlockOf(m) ==
    IF m.role = "user" THEN EncodeBody(m.content)
    ELSE IF m.role = "assistant" THEN EncodeBody(m.content) \o <<eos_token_id>>
    ELSE <<>>

\* The blocks of all messages, in order.
BlocksOf(msgs) == [k \in 1..Len(msgs) |-> BlockOf(msgs[k])]

RECURSIVE BlockStart(_, _)
\* The number of tokens before block k.
BlockStart(blocks, k) ==
    IF k = 1 THEN 1 ELSE BlockStart(blocks, k - 1) + Len(blocks[k - 1])

FullLength(blocks) == BlockStart(blocks, Len(blocks) + 1)

\* The block that covers position j > 1 of the full rendering.
OwnerOf(blocks, j) ==
    CHOOSE k \in 1..Len(blocks) :
        BlockStart(blocks, k) < j /\ j <= BlockStart(blocks, k) + Len(blocks[k])

ExpectedToken(blocks, j) ==
    IF j = 1 THEN bos_token_id
    ELSE LET k == OwnerOf(blocks, j) IN blocks[k][j - BlockStart(blocks, k)]

ExpectedMask(msgs, blocks, j) ==
    IF j = 1 THEN 0
    ELSE IF msgs[OwnerOf(blocks, j)].role = "assistant" THEN 1 ELSE 0

\* C9: the rendered tokens and mask have the same length, at most max_tokens,
\* and are the first max_tokens positions of: the start token (mask 0), then
\* per message its encoded body with mask 0 for a user and mask 1 for an
\* assistant, whose body is followed by one end token of mask 1 (a message of
\* any other role contributes nothing); the mask holds only 0 and 1.
C9_Render ==
    rpc = "rendered" =>
        LET blocks == BlocksOf(messages)
        IN  /\ Len(rids) = Len(rmask)
            /\ Len(rids) = Min(max_tokens, FullLength(blocks))
            /\ \A j \in 1..Len(rids) :
                  /\ rids[j] = ExpectedToken(blocks, j)
                  /\ rmask[j] = ExpectedMask(messages, blocks, j)
                  /\ rmask[j] \in {0, 1}

\* A user message then an assistant message were rendered and the cut fell
\* inside the assistant's body: 1 + 8 + 3 tokens, the last three with mask 1.
C9_Witness ==
    /\ rpc = "rendered"
    /\ Len(messages) = 2
    /\ messages[1].role = "user" /\ messages[2].role = "assistant"
    /\ max_tokens = 12
    /\ Len(rids) = 12
    /\ rmask = <<0, 0, 0, 0, 0, 0, 0, 0, 0, 1, 1, 1>>

(***************************************************************************)
(* nanochat/scanner.py: IPv6Scanner.verify_batch                           *)
(***************************************************************************)

\* The longest ip_list, and the size of the worker pool (50 in the code).
MaxIps == 3
MaxWorkers == 2

\* The address strings a batch is drawn from; the scanner never parses them.
ScanAddresses == {"2400:3200::1", "2001:db8::1"}

\* How one ping6 run can end: exit status 0, a non-zero exit status
\* (CalledProcessError), the 0.5 s timeout (TimeoutExpired), or the command
\* not starting at all (OSError, e.g. FileNotFoundError: no ping6 binary).
ProbeOutcomes == {"exit0", "nonzero", "timeout", "oserror"}

\* _ping_single: True, False, or "raise" when the exception is not one of
\* the two it catches.
PingSingle(outcome) ==
    CASE outcome = "exit0" -> "True"
      [] outcome \in {"nonzero", "timeout"} -> "False"
      [] OTHER -> "raise"

\* 1.0 if is_active else 0.0 (the scores are written 1 and 0)
ScoreOf(is_active) == IF is_active = "True" THEN 1 ELSE 0

Indices == 1..Len(ip_list)
IsDone(i) == future[i] \in ProbeOutcomes
NumRunning == Cardinality({i \in Indices : future[i] = "running"})

\* ip_status[ip] = score
DictSet(d, key, val) ==
    [x \in (DOMAIN d) \cup {key} |-> IF x = key THEN val ELSE d[x]]

\* ip_status.get(ip, 0.0)
DictGet(d, key) == IF key \in DOMAIN d THEN d[key] ELSE 0

InitScanner ==
    /\ spc = "start"
    /\ use_mock \in BOOLEAN
    /\ \E n \in 0..MaxIps : ip_list \in [1..n -> ScanAddresses]
    /\ future = <<>> /\ yielded = {} /\ ip_status = <<>> /\ result = <<>>
    /\ CodecIdle /\ RenderIdle /\ PrepIdle

\* use_mock: a random score per address, no probe
MockBatch ==
    /\ spc = "start" /\ use_mock
    /\ result' \in [Indices -> {0, 1}]
    /\ spc' = "returned"
    /\ UNCHANGED <<use_mock, ip_list, future, yielded, ip_status, codecVars, renderVars, prepVars>>

\* future_to_ip = {executor.submit(self._ping_single, ip): ip for ip in ip_list}
SubmitAll ==
    /\ spc = "start" /\ ~use_mock
    /\ future' = [i \in Indices |-> "pending"]
    /\ spc' = "pool"
    /\ UNCHANGED <<use_mock, ip_list, yielded, ip_status, result, codecVars, renderVars, prepVars>>

\* A free worker takes the oldest queued probe.
StartProbe ==
    /\ spc \in {"pool", "unwinding"}
    /\ NumRunning < MaxWorkers
    /\ \E i \in Indices :
        /\ future[i] = "pending"
        /\ \A j \in 1..(i - 1) : future[j] # "pending"
        /\ future' = [future EXCEPT ![i] = "running"]
    /\ UNCHANGED <<spc, use_mock, ip_list, yielded, ip_status, result, codecVars, renderVars, prepVars>>

\* A running probe ends, in any order among the running ones.
FinishProbe ==
    /\ spc \in {"pool", "unwinding"}
    /\ \E i \in Indices, outcome \in ProbeOutcomes :
        /\ future[i] = "running"
        /\ future' = [future EXCEPT ![i] = outcome]
    /\ UNCHANGED <<spc, use_mock, ip_list, yielded, ip_status, result, codecVars, renderVars, prepVars>>

\* One iteration of `for future in as_completed(future_to_ip)`:
\* ip_status[future_to_ip[future]] = 1.0 if future.result() else 0.0,
\* where future.result() re-raises what _ping_single raised.
Collect ==
    /\ spc = "pool"
    /\ \E i \in Indices \ yielded :
        /\ IsDone(i)
        /\ yielded' = yielded \cup {i}
        /\ IF PingSingle(future[i]) = "raise"
           THEN spc' = "unwinding" /\ UNCHANGED ip_status
           ELSE /\ ip_status' = DictSet(ip_status, ip_list[i], ScoreOf(PingSingle(future[i])))
                /\ UNCHANGED spc
    /\ UNCHANGED <<use_mock, ip_list, future, result, codecVars, renderVars, prepVars>>

\* The exception leaves the with block: the executor is shut down (waiting
\* for every probe) and verify_batch raises.
RaiseFromBatch ==
    /\ spc = "unwinding"
    /\ \A i \in Indices : IsDone(i)
    /\ spc' = "raised"
    /\ UNCHANGED <<use_mock, ip_list, future, yielded, ip_status, result, codecVars, renderVars, prepVars>>

\* return [ip_status.get(ip, 0.0) for ip in ip_list]
ReturnBatch ==
    /\ spc = "pool"
    /\ yielded = Indices
    /\ result' = [i \in Indices |-> DictGet(ip_status, ip_list[i])]
    /\ spc' = "returned"
    /\ UNCHANGED <<use_mock, ip_list, future, yielded, ip_status, codecVars, renderVars, prepVars>>

NextScanner ==
    \/ MockBatch \/ SubmitAll \/ StartProbe \/ FinishProbe
    \/ Collect \/ RaiseFromBatch \/ ReturnBatch

SpecScanner == InitScanner /\ [][NextScanner]_vars

\* C1: in non-mock mode the returned list has the length of the input and
\* result[i] is the score of the probe that was submitted for input[i].
C1_OrderPreserved ==
    (spc = "returned" /\ ~use_mock) =>
        /\ Len(result) = Len(ip_list)
        /\ \A i \in Indices : result[i] = ScoreOf(PingSingle(future[i]))

\* C2: in non-mock mode no probe failure makes verify_batch end with an
\* error, and the list it returns is full length, with 0 for every address
\* whose probe failed (non-zero exit, timeout, command not run) and its own
\* probe's score for every other address.
C2_FailureIsDead ==
    ~use_mock =>
        /\ spc \notin {"unwinding", "raised"}
        /\ spc = "returned" =>
              /\ Len(result) = Len(ip_list)
              /\ \A i \in Indices : result[i] = (IF future[i] = "exit0" THEN 1 ELSE 0)

(***************************************************************************)
(* dev/prepare_ipv6_parquet.py: process_low_memory                         *)
(***************************************************************************)

\* 100 buckets and 200000 rows per shard in the code; scaled down here.
NUM_BUCKETS == 2
DOCS_PER_SHARD == 2
\* Every input of up to MaxLines lines over Lines is enumerated.
MaxLines == 3

L_loop     == <<":", ":", "1">>
L_loopfull == <<"0",":","0",":","0",":","0",":","0",":","0",":","0",":","1">>
L_one      == <<"1", ":", ":">>
L_two      == <<":", ":", "2">>
L_three    == <<":", ":", "3">>
L_four     == <<":", ":", "4">>
L_five     == <<":", ":", "5">>
L_padded   == <<" ", "1", ":", ":", " ">>
L_badhex   == <<":", ":", "g">>
L_short    == <<"1", ":", "2">>
L_comment  == <<"#", ":", ":", "1">>
L_blank    == <<" ">>
L_stale    == <<":", ":", "f">>

Lines == {L_loop, L_loopfull, L_one, L_badhex, L_comment}

\* Longer inputs: 3 distinct valid lines among 2 malformed ones; 3 valid
\* lines of 2 values among 2 malformed ones; 5 distinct valid lines; blank
\* and comment lines around a valid one.
LongInputs ==
    { <<L_loop, L_badhex, L_one, L_short, L_two>>,
      <<L_loop, L_badhex, L_loopfull, L_short, L_padded>>,
      <<L_loop, L_two, L_three, L_four, L_five>>,
      <<L_blank, L_loop, L_comment, <<>>>> }

Inputs == (UNION {[1..n -> Lines] : n \in 0..MaxLines}) \cup LongInputs

\* expand_ipv6 handing back the text itself when it does not parse.
expand_ipv6_keeps_raw(ip_str) ==
    LET v == IPv6Parse(ip_str)
    IN  IF v = None THEN ip_str ELSE Exploded(v)

\* expand_ipv6: the exploded text, None when IPv6Address raises ValueError
expand_ipv6(ip_str) ==
    LET v == IPv6Parse(ip_str)
    IN  IF v = None THEN None ELSE Exploded(v)

RECURSIVE UniqueIps(_)
\* The loop over raw_lines filling the set unique_ips.
UniqueIps(raw_lines) ==
    IF raw_lines = <<>> THEN {}
    ELSE LET expanded == expand_ipv6(Strip(Head(raw_lines)))
         IN  (IF expanded # <<>> THEN {expanded} ELSE {}) \cup UniqueIps(Tail(raw_lines))

\* Drawing len(unique_ips) members with replacement instead of shuffling.
ShufflesWithRepeats(S) == [1..Cardinality(S) -> S]

\* list(unique_ips) followed by random.shuffle: any order of the members
Shuffles(S) ==
    {f \in [1..Cardinality(S) -> S] : \A a, b \in 1..Cardinality(S) : f[a] = f[b] => a = b}

\* A chunk that is kept only when it is full: the remainder is lost.
ChunkDropsRemainder(list, idx) ==
    IF idx + DOCS_PER_SHARD <= Len(list)
    THEN SubSeq(list, idx + 1, idx + DOCS_PER_SHARD)
    ELSE <<>>

\* ip_list[current_idx : current_idx + DOCS_PER_SHARD]
Chunk(list, idx) == SubSeq(list, idx + 1, Min(idx + DOCS_PER_SHARD, Len(list)))

\* The increment forgotten: every shard gets the same index.
NextShardIndexStuck(idx) == idx

\* shard_index += 1
NextShardIndex(idx) == idx + 1

\* line.startswith('#')
StartsWithHash(line) == line # <<>> /\ Head(line) = "#"

NoFiles == <<>>
AllClosed == \A k \in 1..Len(bucket_files) : bucket_files[k] = "closed"

Init ==
    /\ pc = "start"
    /\ input_exists \in BOOLEAN
    /\ IF input_exists THEN fin \in Inputs ELSE fin = <<>>
    \* a working directory left by an earlier run, or none
    /\ temp_dir \in BOOLEAN
    /\ bucket_txt = IF temp_dir THEN [b \in {0} |-> <<L_stale \o <<"\n">>>>] ELSE NoFiles
    /\ bucket_files = <<>> /\ exc = "none" /\ closing = 0
    /\ bucket_i = 0 /\ unique_ips = {} /\ bucket_ip_list = <<>> /\ current_idx = 0
    /\ shard_index = 0 /\ total_processed_ips = 0 /\ shards = <<>> /\ reported = None
    /\ CodecIdle /\ RenderIdle /\ ScannerIdle

\* Lines 35-43: return when the input is missing, else recreate TEMP_DIR.
CheckInput ==
    /\ pc = "start"
    /\ IF ~input_exists
       THEN pc' = "returned" /\ UNCHANGED <<temp_dir, bucket_txt>>
       ELSE pc' = "open" /\ temp_dir' = TRUE /\ bucket_txt' = NoFiles
    /\ UNCHANGED <<input_exists, fin, bucket_files, exc, closing, bucket_i, unique_ips,
                   bucket_ip_list, current_idx, shard_index, total_processed_ips,
                   shards, reported, codecVars, renderVars, scannerVars>>

\* Lines 50-52: open(bucket_i.txt, 'w') creates the file; its handle is kept.
OpenBucket ==
    /\ pc = "open"
    /\ LET b == Len(bucket_files)
       IN  /\ bucket_txt' = [x \in (DOMAIN bucket_txt) \cup {b} |-> <<>>]
           /\ bucket_files' = Append(bucket_files, "open")
           /\ pc' = IF b + 1 = NUM_BUCKETS THEN "read" ELSE "open"
    /\ UNCHANGED <<input_exists, fin, temp_dir, exc, closing, bucket_i, unique_ips,
                   bucket_ip_list, current_idx, shard_index, total_processed_ips,
                   shards, reported, codecVars, renderVars, scannerVars>>

\* open() raises: control passes to the finally block.
OpenBucketFails ==
    /\ pc = "open"
    /\ exc' = "open" /\ pc' = "finally" /\ closing' = 1
    /\ UNCHANGED <<input_exists, fin, temp_dir, bucket_txt, bucket_files, bucket_i,
                   unique_ips, bucket_ip_list, current_idx, shard_index,
                   total_processed_ips, shards, reported, codecVars, renderVars, scannerVars>>

\* Lines 56-65: one input line; blank and comment lines are skipped, any
\* other line goes, stripped and newline-terminated, to a random bucket.
Distribute ==
    /\ pc = "read" /\ fin # <<>>
    /\ LET line == Strip(Head(fin))
       IN  IF line = <<>> \/ StartsWithHash(line)
           THEN UNCHANGED bucket_txt
           ELSE \E bucket_idx \in 0..(NUM_BUCKETS - 1) :
                   bucket_txt' = [bucket_txt EXCEPT
                       ![bucket_idx] = Append(@, line \o <<"\n">>)]
    /\ fin' = Tail(fin)
    /\ UNCHANGED <<pc, input_exists, temp_dir, bucket_files, exc, closing, bucket_i,
                   unique_ips, bucket_ip_list, current_idx, shard_index,
                   total_processed_ips, shards, reported, codecVars, renderVars, scannerVars>>

\* bucket_files[bucket_idx].write raises (disk full, ...).
WriteFails ==
    /\ pc = "read" /\ fin # <<>>
    /\ LET line == Strip(Head(fin)) IN line # <<>> /\ ~StartsWithHash(line)
    /\ fin' = Tail(fin)
    /\ exc' = "write" /\ pc' = "finally" /\ closing' = 1
    /\ UNCHANGED <<input_exists, temp_dir, bucket_txt, bucket_files, bucket_i,
                   unique_ips, bucket_ip_list, current_idx, shard_index,
                   total_processed_ips, shards, reported, codecVars, renderVars, scannerVars>>

\* lzma.open or reading the stream raises.
ReadFails ==
    /\ pc = "read"
    /\ exc' = "read" /\ pc' = "finally" /\ closing' = 1
    /\ UNCHANGED <<input_exists, fin, temp_dir, bucket_txt, bucket_files, bucket_i,
                   unique_ips, bucket_ip_list, current_idx, shard_index,
                   total_processed_ips, shards, reported, codecVars, renderVars, scannerVars>>

\* The input is exhausted: the try block ends normally.
EndOfInput ==
    /\ pc = "read" /\ fin = <<>>
    /\ pc' = "finally" /\ closing' = 1
    /\ UNCHANGED <<input_exists, fin, temp_dir, bucket_txt, bucket_files, exc, bucket_i,
                   unique_ips, bucket_ip_list, current_idx, shard_index,
                   total_processed_ips, shards, reported, codecVars, renderVars, scannerVars>>

\* Lines 69-70: one f.close() of the finally loop.
CloseBucket ==
    /\ pc = "finally" /\ closing <= Len(bucket_files)
    /\ bucket_files' = [bucket_files EXCEPT ![closing] = "closed"]
    /\ closing' = closing + 1
    /\ UNCHANGED <<pc, input_exists, fin, temp_dir, bucket_txt, exc, bucket_i,
                   unique_ips, bucket_ip_list, current_idx, shard_index,
                   total_processed_ips, shards, reported, codecVars, renderVars, scannerVars>>

\* f.close() raises (its flush fails): the descriptor of f is released, the
\* exception leaves the finally loop and the function.
CloseBucketFails ==
    /\ pc = "finally" /\ closing <= Len(bucket_files)
    /\ bucket_files' = [bucket_files EXCEPT ![closing] = "closed"]
    /\ exc' = "close" /\ pc' = "aborted"
    /\ UNCHANGED <<input_exists, fin, temp_dir, bucket_txt, closing, bucket_i,
                   unique_ips, bucket_ip_list, current_idx, shard_index,
                   total_processed_ips, shards, reported, codecVars, renderVars, scannerVars>>

\* The finally loop is over: a pending exception propagates, otherwise
\* lines 74-75 start the reduce stage.
EndFinally ==
    /\ pc = "finally" /\ closing > Len(bucket_files)
    /\ IF exc # "none"
       THEN pc' = "aborted" /\ UNCHANGED <<bucket_i, shard_index, total_processed_ips>>
       ELSE pc' = "reduce" /\ bucket_i' = 0 /\ shard_index' = 0 /\ total_processed_ips' = 0
    /\ UNCHANGED <<input_exists, fin, temp_dir, bucket_txt, bucket_files, exc, closing,
                   unique_ips, bucket_ip_list, current_idx, shards, reported,
                   codecVars, renderVars, scannerVars>>

\* Lines 78-103: read bucket i, expand and deduplicate, shuffle.
ReduceBucket ==
    /\ pc = "reduce" /\ bucket_i < NUM_BUCKETS
    /\ IF bucket_i \notin DOMAIN bucket_txt
       THEN /\ bucket_i' = bucket_i + 1
            /\ UNCHANGED <<pc, unique_ips, bucket_ip_list, current_idx>>
       ELSE /\ unique_ips' = UniqueIps(bucket_txt[bucket_i])
            /\ bucket_ip_list' \in Shuffles(unique_ips')
            /\ current_idx' = 0
            /\ pc' = "chunk"
            /\ UNCHANGED bucket_i
    /\ UNCHANGED <<input_exists, fin, temp_dir, bucket_txt, bucket_files, exc, closing,
                   shard_index, total_processed_ips, shards, reported,
                   codecVars, renderVars, scannerVars>>

\* Lines 104-116: one iteration of the while loop writes one shard.
WriteShard ==
    /\ pc = "chunk" /\ current_idx < Len(bucket_ip_list)
    /\ LET chunk == Chunk(bucket_ip_list, current_idx)
       IN  IF Len(chunk) > 0
           THEN /\ shards' = Append(shards, [index |-> shard_index, bucket |-> bucket_i,
                                             rows |-> chunk])
                /\ shard_index' = NextShardIndex(shard_index)
                /\ total_processed_ips' = total_processed_ips + Len(chunk)
           ELSE UNCHANGED <<shards, shard_index, total_processed_ips>>
    /\ current_idx' = current_idx + DOCS_PER_SHARD
    /\ UNCHANGED <<pc, input_exists, fin, temp_dir, bucket_txt, bucket_files, exc, closing,
                   bucket_i, unique_ips, bucket_ip_list, reported,
                   codecVars, renderVars, scannerVars>>

\* pq.write_table raises.
WriteShardFails ==
    /\ pc = "chunk" /\ current_idx < Len(bucket_ip_list)
    /\ exc' = "shard" /\ pc' = "aborted"
    /\ UNCHANGED <<input_exists, fin, temp_dir, bucket_txt, bucket_files, closing,
                   bucket_i, unique_ips, bucket_ip_list, current_idx, shard_index,
                   total_processed_ips, shards, reported, codecVars, renderVars, scannerVars>>

\* Lines 119-121: the bucket is done; unique_ips and ip_list are deleted.
NextBucket ==
    /\ pc = "chunk" /\ current_idx >= Len(bucket_ip_list)
    /\ bucket_i' = bucket_i + 1
    /\ unique_ips' = {} /\ bucket_ip_list' = <<>> /\ current_idx' = 0
    /\ pc' = "reduce"
    /\ UNCHANGED <<input_exists, fin, temp_dir, bucket_txt, bucket_files, exc, closing,
                   shard_index, total_processed_ips, shards, reported,
                   codecVars, renderVars, scannerVars>>

\* Lines 123-128: shutil.rmtree(TEMP_DIR) and the final report.
Cleanup ==
    /\ pc = "reduce" /\ bucket_i = NUM_BUCKETS
    /\ temp_dir' = FALSE /\ bucket_txt' = NoFiles
    /\ reported' = <<shard_index, total_processed_ips>>
    /\ pc' = "done"
    /\ UNCHANGED <<input_exists, fin, bucket_files, exc, closing, bucket_i, unique_ips,
                   bucket_ip_list, current_idx, shard_index, total_processed_ips,
                   shards, codecVars, renderVars, scannerVars>>

Next ==
    \/ CheckInput \/ OpenBucket \/ OpenBucketFails
    \/ Distribute \/ WriteFails \/ ReadFails \/ EndOfInput
    \/ CloseBucket \/ CloseBucketFails \/ EndFinally
    \/ ReduceBucket \/ WriteShard \/ WriteShardFails \/ NextBucket \/ Cleanup

Spec == Init /\ [][Next]_vars

(***************************************************************************)
(* Properties of the data preparation                                      *)
(***************************************************************************)

LowValue(n) == <<0, 0, 0, 0, 0, 0, 0, n>>

\* What each line of the inputs denotes; a line that is not listed is not
\* an address.
LineTable ==
    { <<L_loop, LowValue(1)>>, <<L_loopfull, LowValue(1)>>,
      <<L_one, <<1, 0, 0, 0, 0, 0, 0, 0>>>>, <<L_two, LowValue(2)>>,
      <<L_three, LowValue(3)>>, <<L_four, LowValue(4)>>, <<L_five, LowValue(5)>>,
      <<L_stale, LowValue(15)>> }

\* A line of a bucket file without its newline.
Chomp(line) ==
    IF line # <<>> /\ line[Len(line)] = "\n" THEN SubSeq(line, 1, Len(line) - 1) ELSE line

IsValidLine(line) == \E p \in LineTable : p[1] = Chomp(line)
RefValue(line) == (CHOOSE p \in LineTable : p[1] = Chomp(line))[2]

\* The exploded text of a value: 4-digit numerals separated by colons.
RefGroup(n) ==
    LET d == RefHex(n) IN [k \in 1..(4 - Len(d)) |-> "0"] \o d

RECURSIVE RefExploded(_)
RefExploded(v) ==
    IF Len(v) = 1 THEN RefGroup(v[1])
    ELSE RefGroup(v[1]) \o <<":">> \o RefExploded(Tail(v))

ValidLines(raw_lines) == {k \in 1..Len(raw_lines) : IsValidLine(raw_lines[k])}

\* The exploded forms of the valid lines of a bucket file.
ExpectedSet(raw_lines) ==
    {RefExploded(RefValue(raw_lines[k])) : k \in ValidLines(raw_lines)}

RECURSIVE RowsOf(_, _)
\* The rows of the shards written for bucket b, in write order.
RowsOf(log, b) ==
    IF log = <<>> THEN <<>>
    ELSE (IF Head(log).bucket = b THEN Head(log).rows ELSE <<>>) \o RowsOf(Tail(log), b)

\* The row counts of the shards written for bucket b, in write order.
SizesOf(log, b) ==
    LET mine == SelectSeq(log, LAMBDA sh : sh.bucket = b)
    IN  [k \in 1..Len(mine) |-> Len(mine[k].rows)]

IsInjective(q) == \A a, b \in 1..Len(q) : q[a] = q[b] => a = b
RangeOf(q) == {q[k] : k \in 1..Len(q)}

\* The buckets whose reduction is complete while the bucket files exist.
ReducedBuckets ==
    IF pc = "reduce" THEN 0..(bucket_i - 1)
    ELSE IF pc = "chunk"
    THEN IF current_idx >= Len(bucket_ip_list) THEN 0..bucket_i ELSE 0..(bucket_i - 1)
    ELSE {}

RECURSIVE ExpectedTotal(_)
\* The number of distinct valid addresses over the buckets 0..b-1.
ExpectedTotal(b) ==
    IF b = 0 THEN 0
    ELSE ExpectedTotal(b - 1) + Cardinality(ExpectedSet(bucket_txt[b - 1]))

\* C4: once a bucket is reduced, the rows of its shards are exactly the
\* members of its deduplicated set, each in one row of one shard: no row
\* repeats within or across the bucket's shards, and the number of rows is
\* the size of the deduplicated set.
C4_DedupConservation ==
    /\ \A b \in ReducedBuckets :
          /\ IsInjective(RowsOf(shards, b))
          /\ RangeOf(RowsOf(shards, b)) = ExpectedSet(bucket_txt[b])
          /\ Len(RowsOf(shards, b)) = Cardinality(ExpectedSet(bucket_txt[b]))
    /\ (pc = "chunk" /\ bucket_i \in ReducedBuckets) =>
          /\ RangeOf(RowsOf(shards, bucket_i)) = unique_ips
          /\ Len(RowsOf(shards, bucket_i)) = Cardinality(unique_ips)

\* A bucket holding "::1" and "0:0:0:0:0:0:0:1" (one value) and "1::" has
\* been reduced to two rows.
C4_Witness ==
    /\ pc = "chunk" /\ current_idx >= Len(bucket_ip_list)
    /\ Len(bucket_txt[bucket_i]) = 3
    /\ \E a, b \in 1..3 : /\ Chomp(bucket_txt[bucket_i][a]) = L_loop
                          /\ Chomp(bucket_txt[bucket_i][b]) = L_loopfull
    /\ Cardinality(unique_ips) = 2
    /\ Len(RowsOf(shards, bucket_i)) = 2

\* C5: the shard index is one counter over the whole reduce stage: the
\* shards written carry the indices 0, 1, 2, ... in write order (so no index
\* is used twice and no bucket restarts the count), the counter always
\* equals the number of shards written, and the final report gives that
\* number.
C5_ShardIndex ==
    /\ \A k \in 1..Len(shards) : shards[k].index = k - 1
    /\ shard_index = Len(shards)
    /\ pc = "done" => reported[1] = Len(shards)

\* A finished run that wrote shards 0 and 1 for bucket 0 and shard 2 for
\* bucket 1.
C5_Witness ==
    /\ pc = "done"
    /\ Len(shards) = 3
    /\ shards[1].bucket = 0 /\ shards[2].bucket = 0 /\ shards[3].bucket = 1
    /\ shards[3].index = 2
    /\ reported[1] = 3

\* C6: a reduced bucket with c distinct addresses has c div S shards of
\* exactly S rows followed, if and only if c mod S is not 0, by one last
\* shard of c mod S rows; every shard holds rows of one bucket only, and no
\* shard is empty or larger than S.
C6_ShardSizing ==
    /\ \A b \in ReducedBuckets :
          LET c     == Cardinality(ExpectedSet(bucket_txt[b]))
              sizes == SizesOf(shards, b)
              full  == c \div DOCS_PER_SHARD
              rest  == c % DOCS_PER_SHARD
          IN  /\ Len(sizes) = full + (IF rest # 0 THEN 1 ELSE 0)
              /\ \A k \in 1..full : sizes[k] = DOCS_PER_SHARD
              /\ rest # 0 => sizes[Len(sizes)] = rest
    /\ \A k \in 1..Len(shards) :
          /\ Len(shards[k].rows) \in 1..DOCS_PER_SHARD
          /\ (pc \in {"reduce", "chunk"} =>
                 RangeOf(shards[k].rows) \subseteq ExpectedSet(bucket_txt[shards[k].bucket]))

\* A bucket of 5 distinct addresses has been reduced to shards of 2, 2 and
\* 1 rows.
C6_Witness ==
    /\ pc = "chunk" /\ current_idx >= Len(bucket_ip_list)
    /\ Cardinality(unique_ips) = 5
    /\ SizesOf(shards, bucket_i) = <<2, 2, 1>>

\* C7: a failed write to a bucket file aborts the run: the reduce stage
\* does not run, no shard is written, and when the run has ended the
\* working directory has been removed.
C7_WriteFailureCleansUp ==
    /\ exc = "write" => (pc \in {"finally", "aborted"} /\ shards = <<>>)
    /\ (pc = "aborted" /\ exc = "write") => ~temp_dir

\* C8: reducing a bucket drops every line that is not an address and keeps
\* the exploded form of every line that is one: the deduplicated set is the
\* set of exploded forms of the valid lines (one entry per distinct value,
\* never more than there are valid lines), and the reduce loop goes through
\* every bucket: when it ends the total is the sum over all buckets.
C8_MalformedDropped ==
    /\ pc = "chunk" =>
          /\ unique_ips = ExpectedSet(bucket_txt[bucket_i])
          /\ Cardinality(unique_ips) <= Cardinality(ValidLines(bucket_txt[bucket_i]))
          /\ Cardinality(unique_ips) =
                Cardinality({RefValue(bucket_txt[bucket_i][k]) :
                                k \in ValidLines(bucket_txt[bucket_i])})
    /\ (pc = "reduce" /\ bucket_i = NUM_BUCKETS) =>
          total_processed_ips = ExpectedTotal(NUM_BUCKETS)
    /\ pc = "done" => (exc = "none" /\ reported[2] = total_processed_ips)

\* Bucket 0 held 3 distinct valid and 2 malformed lines; the loop has gone
\* through every bucket and counted 3 addresses.
C8_Witness ==
    /\ pc = "reduce" /\ bucket_i = NUM_BUCKETS
    /\ Len(bucket_txt[0]) = 5
    /\ Cardinality(ValidLines(bucket_txt[0])) = 3
    /\ Cardinality(ExpectedSet(bucket_txt[0])) = 3
    /\ total_processed_ips = 3

\* C10: however the bucketizing pass ends, every bucket file handle that
\* was opened is closed before the run goes on or stops, and the working
\* directory is deleted only with all handles closed.
C10_HandlesReleased ==
    /\ pc \in {"reduce", "chunk", "done", "aborted"} => AllClosed
    /\ (pc = "done" /\ ~temp_dir) => AllClosed

====
